---- MODULE Spec2Model ----
(***************************************************************************)
(* A model of the template class Vector<Type> of vector.h.                 *)
(*                                                                         *)
(* The heap is a map from addresses to arrays (new[] / delete[]); a Vector *)
(* object is the record of its three private members sz, max_sz, values.   *)
(* Every member function is an operator from a machine state               *)
(* [h |-> heap, c |-> object] to the machine state it leaves, together     *)
(* with the exception it throws (err) and the iterator or reference it     *)
(* returns (ret).  Array slots are numbered from 0 in the source and from  *)
(* 1 here: values[i] of the source is h[c.values][i + 1].                  *)
(*                                                                         *)
(* Spec applies every member function, in any order, to one object         *)
(* (Subject).  The sources of copy construction and copy assignment are    *)
(* objects built from an initializer list that live for the duration of    *)
(* the call.                                                               *)
(***************************************************************************)
EXTENDS Integers, Sequences, FiniteSets, TLC

\* ------------------------------------------------------------- bounds ---
MaxSz == 3          \* push_back and insert are not called on a vector of MaxSz elements
NAddr == 3          \* number of distinct addresses operator new[] can return

\* ---------------------------------------------------------- constants ---
min_capacity == 5

Vecs == {"a", "b"}                 \* the Vector objects a program may declare
\* value_type: the code never inspects an element, so two values are enough
\* to tell any two slots apart
Val == {1, 2}
Addrs == 1..NAddr
NULL == 0                          \* nullptr
Garbage == 0                       \* content of a slot no value was stored in
Ns == 0..(MaxSz + 1)               \* arguments given to Vector(n) and reserve(n)
MaxCap == MaxSz + min_capacity     \* the largest capacity the bounds allow to reach
MaxNew == MaxCap + 1               \* the longest array new value_type[n] provides
Indexes == 0..MaxCap               \* arguments given to operator[]
Offsets == -1..(MaxSz + 1)         \* offsets of the iterators given to insert and erase
Tainted == <<Garbage>>

\* the initializer lists: the sequences of at most MaxSz values
Lists == UNION {[1..k -> Val] : k \in 0..MaxSz}

\* the contents of the source objects of copy assignment: 1,2,1,.. and 2,1,2,..
Sources == {[i \in 1..k |-> ((i + j) % 2) + 1] : k \in 0..MaxSz, j \in 0..1}

\* heap:   the array stored at each address (<<>>: nothing allocated there)
\* vec:    the members of each Vector object
\* last:   the member function called last, on which object, the capacity and
\*         the array of the object before the call and the exception the call
\*         threw
\* pushed: the values given to push_back since the object was constructed
\*         empty, or Tainted once any other modifying member was called
VARIABLES heap, vec, last, pushed
vars == <<heap, vec, last, pushed>>

\* ------------------------------------------------------------ helpers ---
Max(x, y) == IF x >= y THEN x ELSE y

\* the addresses that hold no array
Free(h) == {a \in Addrs : h[a] = <<>>}

\* operator new[] is first-fit from a start address of its choosing (pick):
\* any free address can be the one returned
Scan(pick) == [i \in 1..NAddr |-> ((pick + i - 2) % NAddr) + 1]

\* new value_type[n]
NewAddr(h, pick) ==
  LET order == Scan(pick)
  IN  order[CHOOSE i \in 1..NAddr :
              /\ order[i] \in Free(h)
              /\ \A j \in 1..(i - 1) : order[j] \notin Free(h)]

\* what an address holds after delete[] was applied to it twice
Corrupted == <<-1>>

\* delete[] a
Delete(h, a) == [h EXCEPT ![a] = IF @ \in {<<>>, Corrupted} THEN Corrupted ELSE <<>>]

\* the array a pointer refers to: none for nullptr
Array(h, p) == IF p = NULL THEN <<>> ELSE h[p]

\* what a read yields that is not a read of one of the sz elements of the
\* array (a slot behind the last element, outside the array, or of no array)
Wild == -1

\* values[i], read, for an array whose first sz slots hold the elements
Load(values, i, sz) ==
  IF i >= 0 /\ i < sz /\ i < Len(values) THEN values[i + 1] ELSE Wild

\* values[i] = x; a write outside the array destroys what is there
Store(values, i, x) ==
  IF values # Corrupted /\ i >= 0 /\ i < Len(values)
    THEN [values EXCEPT ![i + 1] = x]
    ELSE Corrupted

\* p[i] = x; a write through nullptr may hit anything
Poke(h, p, i, x) ==
  IF p = NULL THEN [a \in Addrs |-> Corrupted] ELSE [h EXCEPT ![p] = Store(@, i, x)]

\* an object that has not been constructed or has been destroyed
NoObject == [alive |-> FALSE, sz |-> 0, max_sz |-> 0, values |-> NULL]

\* a pointer into an array: the array's address and a slot offset
Ptr(base, off) == [base |-> base, off |-> off]

NullPtr == Ptr(NULL, 0)

\* a machine state: the heap, the object *this, the exception thrown by the
\* call (if any) and the pointer the call returns
St(h, c) == [h |-> h, c |-> c, err |-> "none", ret |-> NullPtr]

Throw(st, e) == [st EXCEPT !.err = e]

\* the elements [0, sz) of the vector, in order
Contents(h, c) == [i \in 1..c.sz |-> h[c.values][i]]

\* ------------------------------------------------------ Vector methods ---
size(c) == c.sz

empty(c) == c.sz = 0

capacity(c) == c.max_sz

clear(st) == [st EXCEPT !.c.sz = 0]

\* CopyLoop with the last element left out (idx < sz - 1)
RECURSIVE CopyLoopShort(_, _, _, _)
CopyLoopShort(new_values, old_values, idx, sz) ==
  IF idx < sz - 1
    THEN CopyLoopShort([new_values EXCEPT ![idx + 1] = old_values[idx + 1]],
                       old_values, idx + 1, sz)
    ELSE new_values

\* the copy loop of reserve: new_values[idx] = values[idx] for idx < sz
RECURSIVE CopyLoop(_, _, _, _)
CopyLoop(new_values, old_values, idx, sz) ==
  IF idx < sz
    THEN CopyLoop(Store(new_values, idx, Load(old_values, idx, sz)),
                  old_values, idx + 1, sz)
    ELSE new_values

\* reserve without the early return for n <= max_sz: it reallocates to n slots
reserveAlways(st, n, pick) ==
  IF n = 0 THEN st
  ELSE LET a == NewAddr(st.h, pick)
           old == st.c.values
           fresh == [i \in 1..n |-> Garbage]
           new_values == IF old # NULL
                           THEN [i \in 1..n |-> IF i <= st.c.sz /\ i <= Len(st.h[old])
                                                  THEN st.h[old][i] ELSE Garbage]
                           ELSE fresh
           h1 == [st.h EXCEPT ![a] = new_values]
           h2 == IF old # NULL THEN Delete(h1, old) ELSE h1
       IN  [st EXCEPT !.h = h2, !.c.max_sz = n, !.c.values = a]

\* reserve without  delete[] values
reserveNoRelease(st, n, pick) ==
  IF n = 0 THEN st
  ELSE IF st.c.values # NULL /\ n <= st.c.max_sz THEN st
  ELSE LET a == NewAddr(st.h, pick)
           old == st.c.values
           fresh == [i \in 1..n |-> Garbage]
           new_values == IF old # NULL
                           THEN CopyLoop(fresh, st.h[old], 0, st.c.sz)
                           ELSE fresh
       IN  [st EXCEPT !.h = [st.h EXCEPT ![a] = new_values], !.c.max_sz = n, !.c.values = a]

reserve(st, n, pick) ==
  IF n = 0 THEN st
  ELSE IF st.c.values # NULL /\ n <= st.c.max_sz THEN st
  ELSE IF n > MaxNew \/ Free(st.h) = {}
    \* max_sz = n is assigned before the new-expression throws
    THEN Throw([st EXCEPT !.c.max_sz = n], "bad_alloc")
  ELSE LET a == NewAddr(st.h, pick)
           old == st.c.values
           fresh == [i \in 1..n |-> Garbage]
           new_values == IF old # NULL
                           THEN CopyLoop(fresh, st.h[old], 0, st.c.sz)
                           ELSE fresh
           h1 == [st.h EXCEPT ![a] = new_values]
           h2 == IF old # NULL THEN Delete(h1, old) ELSE h1
       IN  [st EXCEPT !.h = h2, !.c.max_sz = n, !.c.values = a]

\* Vector(size_type n)
VectorN(h, n, pick) ==
  reserve(St(h, [alive |-> TRUE, sz |-> 0, max_sz |-> n, values |-> NULL]), n, pick)

\* std::copy(init_list.begin(), init_list.end(), values)
RECURSIVE CopyList(_, _, _, _)
CopyList(h, values, init_list, idx) ==
  IF idx < Len(init_list)
    THEN CopyList(Poke(h, values, idx, init_list[idx + 1]), values, init_list, idx + 1)
    ELSE h

\* the initializer-list constructor without the floor of min_capacity:
\* Vector(init_list.size())
VectorListNoFloor(h, init_list, pick) ==
  LET s1 == VectorN(h, Len(init_list), pick)
  IN  IF init_list = <<>> THEN s1
      ELSE [s1 EXCEPT !.h[s1.c.values] = init_list, !.c.sz = Len(init_list)]

\* Vector(std::initializer_list<value_type> init_list)
VectorList(h, init_list, pick) ==
  LET s1 == VectorN(h, Max(Len(init_list), min_capacity), pick)
  IN  [s1 EXCEPT !.h = CopyList(s1.h, s1.c.values, init_list, 0),
                 !.c.sz = Len(init_list)]

\* Vector()
VectorDefault(h, pick) == VectorN(h, min_capacity, pick)

\* ~Vector()
Destructor(st) ==
  IF st.c.values = NULL
    THEN [st EXCEPT !.c = NoObject]
    ELSE [st EXCEPT !.h = Delete(st.h, st.c.values), !.c = NoObject]

\* push_back that grows one call too late (sz > max_sz)
push_backLate(st, x, pick) ==
  LET s1 == IF st.c.values = NULL \/ st.c.sz > st.c.max_sz
              THEN reserve(st, st.c.sz + min_capacity, pick)
              ELSE st
  IN  [s1 EXCEPT !.h[s1.c.values] =
                    [i \in 1..Len(@) |-> IF i = s1.c.sz + 1 THEN x ELSE @[i]],
                 !.c.sz = @ + 1]

\* push_back that doubles the capacity, as insert does
push_backDoubling(st, x, pick) ==
  LET s1 == IF st.c.values = NULL \/ st.c.sz >= st.c.max_sz
              THEN reserve(st, IF st.c.max_sz # 0 THEN st.c.max_sz * 2
                                               ELSE min_capacity, pick)
              ELSE st
  IN  [s1 EXCEPT !.h[s1.c.values][s1.c.sz + 1] = x, !.c.sz = @ + 1]

push_back(st, x, pick) ==
  LET s1 == IF st.c.values = NULL \/ st.c.sz >= st.c.max_sz
              THEN reserve(st, st.c.sz + min_capacity, pick)
              ELSE st
  IN  [s1 EXCEPT !.h = Poke(s1.h, s1.c.values, s1.c.sz, x), !.c.sz = @ + 1]

\* pop_back without the check for an empty vector
pop_backUnchecked(st) == [st EXCEPT !.c.sz = @ - 1]

pop_back(st) ==
  IF empty(st.c)
    THEN Throw(st, "EmptyContainerError")     \* "error, vector is empty"
    ELSE [st EXCEPT !.c.sz = @ - 1]

\* operator[] that checks the index against the capacity
operator_subscriptCapacity(st, index) ==
  IF index >= st.c.max_sz
    THEN Throw(st, "IndexOutOfRangeError")
    ELSE [st EXCEPT !.ret = Ptr(st.c.values, index)]

\* operator[] (both forms): a reference to slot index of the array
operator_subscript(st, index) ==
  IF index >= st.c.sz
    THEN Throw(st, "IndexOutOfRangeError")    \* "index is not within the permitted range"
    ELSE [st EXCEPT !.ret = Ptr(st.c.values, index)]

\* the loop of the copy constructor, of operator= and of shrink_to_fit:
\* push_back(other[idx]) for idx < other.size()
RECURSIVE PushLoop(_, _, _, _)
PushLoop(st, other, idx, pick) ==
  IF idx < size(other)
    THEN LET ref == operator_subscript(St(st.h, other), idx).ret
         IN  PushLoop(push_back(st, Load(Array(st.h, ref.base), ref.off, size(other)), pick),
                      other, idx + 1, pick)
    ELSE st

\* Vector(const Vector &other)
VectorCopy(h, other, pick) ==
  PushLoop(clear(VectorN(h, size(other), pick)), other, 0, pick)

\* the member-wise assignment (the implicit operator=): the destination takes
\* the source's pointer
operator_assignShallow(st, other, self, pick) ==
  IF self THEN st ELSE [st EXCEPT !.c = other]

\* an operator= that releases the array of the destination before it
\* repopulates it
operator_assignReleases(st, other, self, pick) ==
  IF self THEN st
  ELSE LET h1 == IF st.c.values # NULL THEN Delete(st.h, st.c.values) ELSE st.h
       IN  PushLoop([st EXCEPT !.h = h1, !.c.sz = 0, !.c.max_sz = 0, !.c.values = NULL],
                    other, 0, pick)

\* operator=(const Vector& other); self is  this == &other
operator_assign(st, other, self, pick) ==
  IF self THEN st ELSE PushLoop(clear(st), other, 0, pick)

\* shrink_to_fit without  max_sz = 0
shrink_to_fitStaleCapacity(st, pick) ==
  LET back == VectorCopy(st.h, st.c, pick)
      s1 == IF st.c.values # NULL
              THEN [st EXCEPT !.h = Delete(back.h, st.c.values),
                              !.c.values = NULL]
              ELSE [st EXCEPT !.h = back.h]
      s2 == [s1 EXCEPT !.c.sz = 0]
      s3 == PushLoop(reserve(s2, size(back.c), pick), back.c, 0, pick)
  IN  [s3 EXCEPT !.h = Destructor(St(s3.h, back.c)).h]

\* shrink_to_fit without  values = nullptr  after delete[] values
shrink_to_fitKeepsPointer(st, pick) ==
  LET back == VectorCopy(st.h, st.c, pick)
      s1 == IF st.c.values # NULL
              THEN [st EXCEPT !.h = Delete(back.h, st.c.values)]
              ELSE [st EXCEPT !.h = back.h]
      s2 == [s1 EXCEPT !.c.sz = 0, !.c.max_sz = 0]
      s3 == PushLoop(reserve(s2, size(back.c), pick), back.c, 0, pick)
  IN  [s3 EXCEPT !.h = Destructor(St(s3.h, back.c)).h]

shrink_to_fit(st, pick) ==
  LET back == VectorCopy(st.h, st.c, pick)
      s1 == IF st.c.values # NULL
              THEN [st EXCEPT !.h = Delete(back.h, st.c.values),
                              !.c.values = NULL]
              ELSE [st EXCEPT !.h = back.h]
      s2 == [s1 EXCEPT !.c.sz = 0, !.c.max_sz = 0]
      s3 == PushLoop(reserve(s2, size(back.c), pick), back.c, 0, pick)
  IN  [s3 EXCEPT !.h = Destructor(St(s3.h, back.c)).h]

\* ----------------------------------------------------------- iterators ---
\* end() that points behind the last slot of the array
endCapacity(c) == Ptr(c.values, c.max_sz)

end(c) == Ptr(c.values, c.sz)

begin(c) == IF empty(c) THEN end(c) ELSE Ptr(c.values, 0)

\* begin() const and end() const
begin_const(c) == Ptr(c.values, 0)

end_const(c) == Ptr(c.values, c.sz)

\* operator*, operator++ and operator!= of Iterator and of ConstIterator
operator_deref(h, it) == h[it.base][it.off + 1]

operator_increment(it) == Ptr(it.base, it.off + 1)

operator_ne(it, other) == it # other

\* the number of steps after which a traversal counts as not ending
MaxSteps == MaxCap + 2

\* for (it = first; it != stop; ++it) visited.push_back(*it);
RECURSIVE Traverse(_, _, _, _, _)
Traverse(h, it, stop, visited, fuel) ==
  IF ~operator_ne(it, stop) THEN [visited |-> visited, ended |-> TRUE]
  ELSE IF fuel = 0 THEN [visited |-> visited, ended |-> FALSE]
  ELSE Traverse(h, operator_increment(it), stop,
                Append(visited, operator_deref(h, it)), fuel - 1)

\* operator-(ConstIterator, ConstIterator) for two pointers into one array
PtrDiff(lop, rop) == lop.off - rop.off

\* the shift loop of insert run from the lowest index up:
\* for (i = current; i < sz; ++i) values[i + 1] = values[i]
RECURSIVE ShiftUpAscending(_, _, _, _)
ShiftUpAscending(values, i, current, sz) ==
  IF current < i
    THEN ShiftUpAscending(Store(values, current + 1, Load(values, current, sz)),
                          i, current + 1, sz)
    ELSE values

\* the shift loop of insert: for (i = sz; i-- > current;) values[i + 1] = values[i]
\* (i is the value of the loop variable before the decrement)
RECURSIVE ShiftUp(_, _, _, _)
ShiftUp(values, i, current, sz) ==
  IF i > current
    THEN ShiftUp(Store(values, i, Load(values, i - 1, sz)), i - 1, current, sz)
    ELSE values

\* insert that grows before it checks the position
insertGrowFirst(st, pos, val, pick) ==
  LET diff == PtrDiff(pos, begin(st.c))
      s1 == IF st.c.sz >= st.c.max_sz
              THEN reserve(st, IF st.c.max_sz # 0 THEN st.c.max_sz * 2
                                               ELSE min_capacity, pick)
              ELSE st
  IN  IF diff < 0 \/ diff > st.c.sz
        THEN Throw(s1, "IteratorOutOfBoundsError")
        ELSE LET current == diff
                 shifted == ShiftUp(s1.h[s1.c.values], s1.c.sz, current, s1.c.sz)
             IN  [s1 EXCEPT !.h[s1.c.values] = Store(shifted, current, val),
                            !.c.sz = @ + 1,
                            !.ret = Ptr(s1.c.values, current)]

\* insert that grows by min_capacity, as push_back does
insertAdditive(st, pos, val, pick) ==
  LET diff == PtrDiff(pos, begin(st.c))
  IN  IF diff < 0 \/ diff > st.c.sz
        THEN Throw(st, "IteratorOutOfBoundsError")
        ELSE LET current == diff
                 s1 == IF st.c.sz >= st.c.max_sz
                         THEN reserve(st, st.c.sz + min_capacity, pick)
                         ELSE st
                 shifted == ShiftUp(s1.h[s1.c.values], s1.c.sz, current, s1.c.sz)
             IN  [s1 EXCEPT !.h[s1.c.values] = Store(shifted, current, val),
                            !.c.sz = @ + 1,
                            !.ret = Ptr(s1.c.values, current)]

\* insert that grows the array on every call, without  if (sz >= max_sz)
insertAlwaysGrows(st, pos, val, pick) ==
  LET diff == PtrDiff(pos, begin(st.c))
  IN  IF diff < 0 \/ diff > st.c.sz
        THEN Throw(st, "IteratorOutOfBoundsError")
        ELSE LET current == diff
                 s1 == reserve(st, IF st.c.max_sz # 0 THEN st.c.max_sz * 2
                                                     ELSE min_capacity, pick)
                 shifted == ShiftUp(s1.h[s1.c.values], s1.c.sz, current, s1.c.sz)
             IN  [s1 EXCEPT !.h[s1.c.values] = Store(shifted, current, val),
                            !.c.sz = @ + 1,
                            !.ret = Ptr(s1.c.values, current)]

insert(st, pos, val, pick) ==
  LET diff == PtrDiff(pos, begin(st.c))
  IN  IF diff < 0 \/ diff > st.c.sz
        THEN Throw(st, "IteratorOutOfBoundsError")   \* "Iterator out of bounds"
        ELSE LET current == diff
                 s1 == IF st.c.sz >= st.c.max_sz
                         THEN reserve(st, IF st.c.max_sz # 0 THEN st.c.max_sz * 2
                                                          ELSE min_capacity, pick)
                         ELSE st
                 shifted == ShiftUp(s1.h[s1.c.values], s1.c.sz, current, s1.c.sz)
             IN  [s1 EXCEPT !.h[s1.c.values] = Store(shifted, current, val),
                            !.c.sz = @ + 1,
                            !.ret = Ptr(s1.c.values, current)]

\* the shift loop of erase stopping one element early (i < sz - 2)
RECURSIVE ShiftDownShort(_, _, _)
ShiftDownShort(values, i, sz) ==
  IF i < sz - 2
    THEN ShiftDownShort([values EXCEPT ![i + 1] = values[i + 2]], i + 1, sz)
    ELSE values

\* the shift loop of erase: for (i = current; i < sz - 1; ++i) values[i] = values[i + 1]
RECURSIVE ShiftDown(_, _, _)
ShiftDown(values, i, sz) ==
  IF i < sz - 1
    THEN ShiftDown(Store(values, i, Load(values, i + 1, sz)), i + 1, sz)
    ELSE values

erase(st, pos) ==
  LET diff == PtrDiff(pos, begin(st.c))
  IN  IF diff < 0 \/ diff >= st.c.sz
        THEN Throw(st, "IteratorOutOfBoundsError")   \* "Iterator out of bounds"
        ELSE LET current == diff
             IN  [st EXCEPT !.h[st.c.values] = ShiftDown(st.h[st.c.values], current, st.c.sz),
                            !.c.sz = @ - 1,
                            !.ret = Ptr(st.c.values, current)]

\* Vector<T> v(Vector<T>{src}): the copy of a source object that holds src
\* and lives for the duration of the call
CopyOfTemporary(h, src, pick) ==
  LET other == VectorList(h, src, pick)
      r == VectorCopy(other.h, other.c, pick)
  IN  [r EXCEPT !.h = Destructor(St(r.h, other.c)).h]

\* v = Vector<T>{src}: the assignment from a source object that holds src and
\* lives for the duration of the call
AssignTemporary(st, src, pick) ==
  LET other == VectorList(st.h, src, pick)
      r == operator_assign(St(other.h, st.c), other.c, FALSE, pick)
  IN  [r EXCEPT !.h = Destructor(St(r.h, other.c)).h]

\* ------------------------------------------------------------- actions ---
Call(op, v, r) ==
  [op |-> op, v |-> v, cap |-> capacity(vec[v]), buf |-> vec[v].values, err |-> r.err]

\* the call leaves the machine state r, and p in pushed[v]
Outcome(v, r, p) ==
  /\ heap' = r.h
  /\ vec' = [vec EXCEPT ![v] = r.c]
  /\ pushed' = [pushed EXCEPT ![v] = p]

\* the machine state a call on v starts from
Now(v) == St(heap, vec[v])

\* the lowest and the highest free address
Lo == IF Free(heap) = {} THEN NULL
      ELSE CHOOSE a \in Free(heap) : \A b \in Free(heap) : a <= b

Hi == IF Free(heap) = {} THEN NULL
      ELSE CHOOSE a \in Free(heap) : \A b \in Free(heap) : a >= b

\* the start addresses operator new[] may choose for a call, given what the
\* call leaves when started at Lo and at Hi: all the free ones, or a single
\* one when the outcome does not depend on the start (two different starts
\* give the same heap only if the call keeps no new array)
Starts(at_lo, at_hi) == IF at_lo.h = at_hi.h THEN {Lo} ELSE Free(heap)

Init ==
  /\ heap = [a \in Addrs |-> <<>>]
  /\ vec = [v \in Vecs |-> NoObject]
  /\ last = Call("none", "a", St(heap, NoObject))
  /\ pushed = [v \in Vecs |-> <<>>]

\* Vector<T> v(n);
Construct(v, n) ==
  /\ ~vec[v].alive
  /\ \E pick \in Starts(VectorN(heap, n, Lo),
                       VectorN(heap, n, Hi)) :
       LET r == VectorN(heap, n, pick)
       IN  /\ Outcome(v, r, <<>>)
           /\ last' = Call("Vector(n)", v, r)

\* Vector<T> v;
ConstructDefault(v) ==
  /\ ~vec[v].alive
  /\ \E pick \in Starts(VectorDefault(heap, Lo),
                       VectorDefault(heap, Hi)) :
       LET r == VectorDefault(heap, pick)
       IN  /\ Outcome(v, r, <<>>)
           /\ last' = Call("Vector()", v, r)

\* Vector<T> v{init_list};
ConstructList(v, init_list) ==
  /\ ~vec[v].alive
  /\ \E pick \in Starts(VectorList(heap, init_list, Lo),
                       VectorList(heap, init_list, Hi)) :
       LET r == VectorList(heap, init_list, pick)
       IN  /\ Outcome(v, r, IF init_list = <<>> THEN <<>> ELSE Tainted)
           /\ last' = Call("Vector(list)", v, r)

\* Vector<T> v(other); for a source object other that holds src and lives
\* for the duration of the call
ConstructCopy(v, src) ==
  /\ ~vec[v].alive
  /\ \E pick \in Starts(CopyOfTemporary(heap, src, Lo),
                       CopyOfTemporary(heap, src, Hi)) :
       LET done == CopyOfTemporary(heap, src, pick)
       IN  /\ Outcome(v, done, IF src = <<>> THEN <<>> ELSE Tainted)
           /\ last' = Call("Vector(other)", v, done)

\* v = other; for a source object other that holds src and lives for the
\* duration of the call
CopyAssign(v, src) ==
  /\ vec[v].alive
  /\ \E pick \in Starts(AssignTemporary(St(heap, vec[v]), src, Lo),
                       AssignTemporary(St(heap, vec[v]), src, Hi)) :
       LET done == AssignTemporary(St(heap, vec[v]), src, pick)
       IN  /\ Outcome(v, done, Tainted)
           /\ last' = Call("operator=", v, done)

\* v = v;
SelfAssign(v) ==
  /\ vec[v].alive
  /\ \E pick \in Starts(operator_assign(St(heap, vec[v]), vec[v], TRUE, Lo),
                       operator_assign(St(heap, vec[v]), vec[v], TRUE, Hi)) :
       LET r == operator_assign(St(heap, vec[v]), vec[v], TRUE, pick)
       IN  /\ Outcome(v, r, Tainted)
           /\ last' = Call("operator=(self)", v, r)

Destroy(v) ==
  /\ vec[v].alive
  /\ LET r == Destructor(St(heap, vec[v]))
     IN  /\ Outcome(v, r, <<>>)
         /\ last' = Call("~Vector", v, r)

Clear(v) ==
  /\ vec[v].alive
  /\ LET r == clear(St(heap, vec[v]))
     IN  /\ Outcome(v, r, Tainted)
         /\ last' = Call("clear", v, r)

Reserve(v, n) ==
  /\ vec[v].alive
  /\ \E pick \in Starts(reserve(St(heap, vec[v]), n, Lo),
                       reserve(St(heap, vec[v]), n, Hi)) :
       LET r == reserve(St(heap, vec[v]), n, pick)
       IN  /\ Outcome(v, r, Tainted)
           /\ last' = Call("reserve", v, r)

ShrinkToFit(v) ==
  /\ vec[v].alive
  /\ \E pick \in Starts(shrink_to_fit(St(heap, vec[v]), Lo),
                       shrink_to_fit(St(heap, vec[v]), Hi)) :
       LET r == shrink_to_fit(St(heap, vec[v]), pick)
       IN  /\ Outcome(v, r, Tainted)
           /\ last' = Call("shrink_to_fit", v, r)

PushBack(v, x) ==
  /\ vec[v].alive
  /\ vec[v].sz < MaxSz
  /\ \E pick \in Starts(push_back(St(heap, vec[v]), x, Lo),
                       push_back(St(heap, vec[v]), x, Hi)) :
       LET r == push_back(St(heap, vec[v]), x, pick)
       IN  /\ Outcome(v, r, IF pushed[v] = Tainted THEN Tainted ELSE Append(pushed[v], x))
           /\ last' = Call("push_back", v, r)

PopBack(v) ==
  /\ vec[v].alive
  /\ LET r == pop_back(St(heap, vec[v]))
     IN  /\ Outcome(v, r, Tainted)
         /\ last' = Call("pop_back", v, r)

\* v[index], read
Read(v, index) ==
  /\ vec[v].alive
  /\ index <= vec[v].max_sz
  /\ LET r == operator_subscript(St(heap, vec[v]), index)
     IN  /\ Outcome(v, r, pushed[v])
         /\ last' = Call("operator[]", v, r)

\* v[index] = x;
Write(v, index, x) ==
  /\ vec[v].alive
  /\ index <= vec[v].sz
  /\ LET r == operator_subscript(St(heap, vec[v]), index)
         w == IF r.err = "none"
                THEN [r EXCEPT !.h = Poke(r.h, r.ret.base, r.ret.off, x)]
                ELSE r
     IN  /\ Outcome(v, w, Tainted)
         /\ last' = Call("operator[]=", v, w)

\* v.insert(pos, val) for the iterator pos at offset k of v's array
Insert(v, k, val) ==
  /\ vec[v].alive
  /\ vec[v].sz < MaxSz
  /\ k <= vec[v].sz + 1
  /\ \E pick \in Starts(insert(St(heap, vec[v]), Ptr(vec[v].values, k), val, Lo),
                       insert(St(heap, vec[v]), Ptr(vec[v].values, k), val, Hi)) :
       LET r == insert(St(heap, vec[v]), Ptr(vec[v].values, k), val, pick)
       IN  /\ Outcome(v, r, Tainted)
           /\ last' = Call("insert", v, r)

\* v.erase(pos) for the iterator pos at offset k of v's array
Erase(v, k) ==
  /\ vec[v].alive
  /\ k <= vec[v].sz + 1
  /\ LET r == erase(St(heap, vec[v]), Ptr(vec[v].values, k))
     IN  /\ Outcome(v, r, Tainted)
         /\ last' = Call("erase", v, r)

\* for (auto it = v.begin(); it != v.end(); ++it) *it;
Iterate(v) ==
  /\ vec[v].alive
  /\ Traverse(heap, begin(vec[v]), end(vec[v]), <<>>, MaxSteps).ended
  /\ Outcome(v, Now(v), pushed[v])
  /\ last' = Call("begin..end", v, Now(v))

\* the object the operations are applied to
Subject == "a"

Next ==
  \E v \in {Subject} :
    \/ \E n \in Ns : Construct(v, n)
    \/ ConstructDefault(v)
    \/ \E l \in Lists : ConstructList(v, l)
    \/ \E l \in Lists : ConstructCopy(v, l)
    \/ \E l \in Sources : CopyAssign(v, l)
    \/ SelfAssign(v)
    \/ Destroy(v)
    \/ Clear(v)
    \/ \E n \in Ns : Reserve(v, n)
    \/ ShrinkToFit(v)
    \/ \E x \in Val : PushBack(v, x)
    \/ PopBack(v)
    \/ \E i \in Indexes : Read(v, i)
    \/ \E i \in Indexes, x \in Val : Write(v, i, x)
    \/ \E k \in Offsets, x \in Val : Insert(v, k, x)
    \/ \E k \in Offsets : Erase(v, k)
    \/ Iterate(v)

Spec == Init /\ [][Next]_vars

\* ------------------------------------------------ two objects at a time ---
\* the other of the two objects
Other(v) == CHOOSE w \in Vecs : w # v

\* the initializer lists given to object v: 2,1,2,.. for a and 1,2,1,.. for b
Fills(v) == {[i \in 1..k |-> ((i + (IF v = "a" THEN 1 ELSE 2)) % 2) + 1] : k \in 0..MaxSz}

\* Vector<T> v(w); for the other object w
ConstructCopyFrom(v) ==
  /\ ~vec[v].alive
  /\ vec[Other(v)].alive
  /\ \E pick \in Starts(VectorCopy(heap, vec[Other(v)], Lo),
                       VectorCopy(heap, vec[Other(v)], Hi)) :
       LET r == VectorCopy(heap, vec[Other(v)], pick)
       IN  /\ Outcome(v, r, Tainted)
           /\ last' = Call("Vector(other)", v, r)

\* v = w; for the other object w
CopyAssignFrom(v) ==
  /\ vec[v].alive
  /\ vec[Other(v)].alive
  /\ \E pick \in Starts(operator_assign(St(heap, vec[v]), vec[Other(v)], FALSE, Lo),
                       operator_assign(St(heap, vec[v]), vec[Other(v)], FALSE, Hi)) :
       LET r == operator_assign(St(heap, vec[v]), vec[Other(v)], FALSE, pick)
       IN  /\ Outcome(v, r, Tainted)
           /\ last' = Call("operator=", v, r)

\* the largest distance between two arrays that is told apart from a larger one
MaxDist == MaxCap + 1

Dists == (-MaxDist)..MaxDist

\* other.values - c.values for the arrays of two objects, wherever operator
\* new[] has placed them: 0 for two null pointers, and otherwise any distance
\* at which the two arrays do not overlap (nullptr is below every array)
Distances(c, other) ==
  IF c.values = NULL /\ other.values = NULL THEN {0}
  ELSE IF c.values = NULL THEN 1..MaxDist
  ELSE IF other.values = NULL THEN (-MaxDist)..(-1)
  ELSE {d \in Dists : d >= capacity(c) \/ d <= -capacity(other)}

\* the iterator at offset j of the array of the other object, as the pointer
\* arithmetic of c reads it: c.values + (other.values - c.values) + j
Foreign(c, d, j) == Ptr(c.values, d + j)

\* a program that constructs, copies, assigns and destroys two objects
NextPair ==
  \E v \in Vecs :
    \/ \E l \in Fills(v) : ConstructList(v, l)
    \/ ConstructCopyFrom(v)
    \/ CopyAssignFrom(v)
    \/ SelfAssign(v)
    \/ Destroy(v)

SpecPair == Init /\ [][NextPair]_vars

\* ------------------------------------------- new-expressions that throw ---
\* the arguments given to reserve(n), one of them longer than any array the
\* new-expression provides (new value_type[n] throws when n * sizeof(value_type)
\* is not representable, whatever memory is free)
Lengths == Ns \cup {MaxNew + 1}

NextAlloc ==
  \E v \in {Subject} :
    \/ \E n \in Ns : Construct(v, n)
    \/ Destroy(v)
    \/ \E n \in Lengths : Reserve(v, n)
    \/ \E x \in Val : PushBack(v, x)
    \/ PopBack(v)
    \/ \E k \in Offsets, x \in Val : Insert(v, k, x)

SpecAlloc == Init /\ [][NextAlloc]_vars

\* -------------------------------------------------------------- claims ---
Live == {v \in Vecs : vec[v].alive}

\* the iterator at offset k of v's array
ItAt(v, k) == Ptr(vec[v].values, k)

Elems(r) == Contents(r.h, r.c)

\* the call left the heap and the object as they were
Same(v, r) == r.h = heap /\ r.c = vec[v]

InsertAt(s, k, x) == SubSeq(s, 1, k) \o <<x>> \o SubSeq(s, k + 1, Len(s))

RemoveAt(s, k) == SubSeq(s, 1, k) \o SubSeq(s, k + 2, Len(s))

\* C1: in every reachable state, also after a call that threw,
\* size() <= capacity() for every object.
C1_SizeLeCapacity ==
  \A v \in Vecs : size(vec[v]) <= capacity(vec[v])

\* a call threw on a full vector of MaxSz elements
C1_Witness ==
  /\ last.err # "none"
  /\ vec[last.v].alive
  /\ size(vec[last.v]) = capacity(vec[last.v])
  /\ size(vec[last.v]) = MaxSz

\* C2: after n push_back calls on an object constructed empty (whatever its
\* initial capacity), size() = n and operator[](i) is the (i+1)-th value
\* pushed, for every i < n.
C2_PushBackSequence ==
  \A v \in Live :
    pushed[v] # Tainted =>
      /\ size(vec[v]) = Len(pushed[v])
      /\ \A i \in 0..(Len(pushed[v]) - 1) :
           LET r == operator_subscript(Now(v), i)
           IN  /\ r.err = "none"
               /\ heap[r.ret.base][r.ret.off + 1] = pushed[v][i + 1]

\* MaxSz values were pushed on an object constructed with capacity 1, so the
\* second push_back reallocated
C2_Witness ==
  /\ last.op = "push_back"
  /\ pushed[last.v] # Tainted
  /\ Len(pushed[last.v]) = MaxSz
  /\ pushed[last.v][1] # pushed[last.v][2]
  /\ capacity(vec[last.v]) = 1 + min_capacity

\* C3: insert at offset k in 0..size() of a vector holding s yields
\* s[0..k) ++ [val] ++ s[k..size), size() + 1 elements, with or without a
\* reallocation, and returns the iterator at offset k of the current array,
\* which refers to val; at k = size() the elements and the size are those
\* push_back(val) yields.
C3_Insert ==
  \A v \in Live : \A k \in 0..size(vec[v]), val \in Val, pick \in Free(heap) :
    LET s == Elems(Now(v))
        r == insert(Now(v), ItAt(v, k), val, pick)
        p == push_back(Now(v), val, pick)
    IN  /\ r.err = "none"
        /\ Elems(r) = InsertAt(s, k, val)
        /\ size(r.c) = size(vec[v]) + 1
        /\ r.ret = Ptr(r.c.values, k)
        /\ r.h[r.ret.base][r.ret.off + 1] = val
        /\ k = size(vec[v]) => Elems(r) = Elems(p) /\ size(r.c) = size(p.c)

\* an insert before two elements that doubled the capacity from 2 to 4
C3_Witness ==
  /\ last.op = "insert"
  /\ last.err = "none"
  /\ last.cap = 2
  /\ capacity(vec[last.v]) = 4
  /\ Elems(Now(last.v)) = <<2, 1, 1>>

\* C4: erase at offset k in 0..size()-1 of a vector holding s yields
\* s[0..k) ++ s[k+1..size), size() - 1 elements, the capacity and the array
\* it had, and returns the iterator at offset k of that array: it refers to
\* the former element k + 1, or is end() when k was the last index.
C4_Erase ==
  \A v \in Live : \A k \in 0..(size(vec[v]) - 1) :
    LET s == Elems(Now(v))
        r == erase(Now(v), ItAt(v, k))
    IN  /\ r.err = "none"
        /\ Elems(r) = RemoveAt(s, k)
        /\ size(r.c) = size(vec[v]) - 1
        /\ capacity(r.c) = capacity(vec[v])
        /\ r.c.values = vec[v].values
        /\ r.ret = Ptr(vec[v].values, k)
        /\ k = size(vec[v]) - 1 => r.ret = end(r.c)
        /\ k < size(vec[v]) - 1 => r.h[r.ret.base][r.ret.off + 1] = s[k + 2]

\* an erase took an element away from a vector of three: the slot of the
\* former last element still holds a value
C4_Witness ==
  /\ last.op = "erase"
  /\ last.err = "none"
  /\ Elems(Now(last.v)) = <<1, 2>>
  /\ heap[vec[last.v].values][3] = 1

\* C5: a call that throws (pop_back on an empty vector, operator[] with
\* index >= size(), insert at an offset < 0 or > size(), erase at an offset
\* < 0 or >= size()) leaves the heap and the object exactly as they were.
C5_ErrorsChangeNothing ==
  \A v \in Live :
    /\ LET r == pop_back(Now(v))
       IN  /\ empty(vec[v]) => r.err # "none"
           /\ r.err # "none" => Same(v, r)
    /\ \A i \in Indexes :
         LET r == operator_subscript(Now(v), i)
         IN  /\ i >= size(vec[v]) => r.err # "none"
             /\ r.err # "none" => Same(v, r)
    /\ \A k \in Offsets, val \in Val, pick \in Free(heap) :
         LET r == insert(Now(v), ItAt(v, k), val, pick)
         IN  /\ (k < 0 \/ k > size(vec[v])) => r.err # "none"
             /\ r.err # "none" => Same(v, r)
    /\ \A k \in Offsets :
         LET r == erase(Now(v), ItAt(v, k))
         IN  /\ (k < 0 \/ k >= size(vec[v])) => r.err # "none"
             /\ r.err # "none" => Same(v, r)

\* an insert threw on a full vector, where a successful insert reallocates
C5_Witness ==
  /\ last.op = "insert"
  /\ last.err = "IteratorOutOfBoundsError"
  /\ size(vec[last.v]) = capacity(vec[last.v])
  /\ size(vec[last.v]) = 2

\* C6: operator[](i) throws IndexOutOfRangeError if and only if i >= size():
\* i = size() throws, i = size() - 1 does not (on a non-empty vector), and a
\* reference returned is one to a slot below size().
C6_IndexBounds ==
  \A v \in Live :
    /\ \A i \in Indexes :
         LET r == operator_subscript(Now(v), i)
         IN  /\ (r.err = "IndexOutOfRangeError") <=> (i >= size(vec[v]))
             /\ r.err \in {"none", "IndexOutOfRangeError"}
             /\ r.err = "none" => r.ret = Ptr(vec[v].values, i) /\ r.ret.off < size(vec[v])
    /\ operator_subscript(Now(v), size(vec[v])).err = "IndexOutOfRangeError"
    /\ ~empty(vec[v]) => operator_subscript(Now(v), size(vec[v]) - 1).err = "none"

\* operator[] threw on a vector that holds fewer elements than slots, after
\* pop_back, erase or clear lowered the size
C6_Witness ==
  /\ last.op = "operator[]"
  /\ last.err = "IndexOutOfRangeError"
  /\ size(vec[last.v]) = 1
  /\ capacity(vec[last.v]) = 2
  /\ heap[vec[last.v].values][2] # Garbage

\* C7: pop_back throws EmptyContainerError exactly when size() = 0; otherwise
\* it takes the last element away and keeps the others in order; either way
\* the capacity, the array and the heap are unchanged.
C7_PopBack ==
  \A v \in Live :
    LET s == Elems(Now(v))
        r == pop_back(Now(v))
    IN  /\ (r.err = "EmptyContainerError") <=> (size(vec[v]) = 0)
        /\ r.err \in {"none", "EmptyContainerError"}
        /\ size(vec[v]) > 0 =>
             /\ size(r.c) = size(vec[v]) - 1
             /\ Elems(r) = SubSeq(s, 1, Len(s) - 1)
        /\ capacity(r.c) = capacity(vec[v])
        /\ r.c.values = vec[v].values
        /\ r.h = heap

\* pop_back threw on an empty vector that owns an array
C7_Witness ==
  /\ last.op = "pop_back"
  /\ last.err = "EmptyContainerError"
  /\ vec[last.v].values # NULL
  /\ capacity(vec[last.v]) = MaxSz

\* C8, as claimed: a successful insert on a full vector makes the capacity
\* max(capacity * 2, min_capacity); on any other vector it leaves the capacity
\* as it was.
C8_GrowthAsClaimed ==
  \A v \in Live :
    (last.op = "insert" /\ last.v = v /\ last.err = "none") =>
      LET before == size(vec[v]) - 1
      IN  /\ before = last.cap => capacity(vec[v]) = Max(last.cap * 2, min_capacity)
          /\ before < last.cap => capacity(vec[v]) = last.cap

\* C8, amended: a successful insert on a full vector doubles the capacity,
\* whatever it is, and makes it min_capacity only when it was 0; on any other
\* vector it leaves the capacity as it was.
C8_Growth ==
  \A v \in Live :
    /\ (last.op = "insert" /\ last.v = v /\ last.err = "none") =>
         LET before == size(vec[v]) - 1
         IN  /\ (before = last.cap /\ last.cap > 0) => capacity(vec[v]) = last.cap * 2
             /\ last.cap = 0 => capacity(vec[v]) = min_capacity
             /\ before < last.cap => capacity(vec[v]) = last.cap
    /\ \A k \in 0..size(vec[v]), val \in Val, pick \in Free(heap) :
         LET r == insert(Now(v), ItAt(v, k), val, pick)
         IN  /\ (size(vec[v]) = capacity(vec[v]) /\ capacity(vec[v]) > 0) =>
                   capacity(r.c) = capacity(vec[v]) * 2
             /\ capacity(vec[v]) = 0 => capacity(r.c) = min_capacity
             /\ size(vec[v]) < capacity(vec[v]) => capacity(r.c) = capacity(vec[v])

\* an insert on a full vector of capacity 1 left the capacity 2
C8_Witness ==
  /\ last.op = "insert"
  /\ last.err = "none"
  /\ last.cap = 1
  /\ capacity(vec[last.v]) = 2
  /\ size(vec[last.v]) = 2

\* C9: push_back on a full vector, or on one without an array, makes the
\* capacity size() + min_capacity; on a vector with a free slot it leaves the
\* capacity and the array as they were and only stores the value.
C9_PushBackGrowth ==
  \A v \in Live : \A x \in Val, pick \in Free(heap) :
    LET c == vec[v]
        r == push_back(Now(v), x, pick)
    IN  /\ (size(c) = capacity(c) \/ c.values = NULL) =>
              capacity(r.c) = size(c) + min_capacity
        /\ size(c) < capacity(c) =>
              /\ capacity(r.c) = capacity(c)
              /\ r.c.values = c.values
              /\ r.h = [heap EXCEPT ![c.values][size(c) + 1] = x]

\* a push_back on a full vector of capacity 2 left the capacity 7
C9_Witness ==
  /\ last.op = "push_back"
  /\ last.cap = 2
  /\ capacity(vec[last.v]) = 2 + min_capacity
  /\ size(vec[last.v]) = 3

\* C10: after reserve(n) the capacity is at least n; it and the array are
\* unchanged if n = 0 or the capacity was at least n already, and it is
\* exactly n otherwise; the size and the elements are unchanged in all cases.
C10_Reserve ==
  \A v \in Live : \A n \in 0..(MaxCap + 1), pick \in Free(heap) :
    LET c == vec[v]
        r == reserve(Now(v), n, pick)
    IN  /\ capacity(r.c) >= n
        /\ IF n = 0 \/ (c.values # NULL /\ capacity(c) >= n)
             THEN capacity(r.c) = capacity(c) /\ r.c.values = c.values /\ r.h = heap
             ELSE capacity(r.c) = n
        /\ capacity(r.c) >= capacity(c)
        /\ size(r.c) = size(c)
        /\ Elems(r) = Elems(Now(v))

\* reserve(n) with n below the capacity on a vector of MaxSz elements
C10_Witness ==
  /\ last.op = "reserve"
  /\ last.cap = MaxSz + 1
  /\ capacity(vec[last.v]) = MaxSz + 1
  /\ size(vec[last.v]) = MaxSz

\* C11: shrink_to_fit, called in any state (also on an empty vector, with or
\* without an array), throws nothing, leaves size() and the elements as they
\* were and leaves capacity() = size().
C11_ShrinkToFit ==
  \A v \in Live : \A pick \in Free(heap) :
    LET r == shrink_to_fit(Now(v), pick)
    IN  /\ r.err = "none"
        /\ size(r.c) = size(vec[v])
        /\ Elems(r) = Elems(Now(v))
        /\ capacity(r.c) = size(r.c)

\* shrink_to_fit took the capacity of a vector of three elements from 7 to 3
C11_Witness ==
  /\ last.op = "shrink_to_fit"
  /\ last.cap = 2 + min_capacity
  /\ capacity(vec[last.v]) = 3
  /\ Elems(Now(last.v)) = <<1, 2, 2>>

\* the machine states the modifying members leave when called on v, with any
\* argument: push_back, pop_back, insert, erase, an element write, reserve,
\* shrink_to_fit, clear
Modified(v) ==
  {push_back(Now(v), x, pick) : x \in Val, pick \in Free(heap)}
    \cup {pop_back(Now(v))}
    \cup {insert(Now(v), ItAt(v, k), x, pick) :
            k \in 0..size(vec[v]), x \in Val, pick \in Free(heap)}
    \cup {erase(Now(v), ItAt(v, k)) : k \in 0..size(vec[v])}
    \cup {LET r == operator_subscript(Now(v), i)
          IN  IF r.err = "none" THEN [r EXCEPT !.h = Poke(r.h, r.ret.base, r.ret.off, x)] ELSE r :
            i \in 0..size(vec[v]), x \in Val}
    \cup {reserve(Now(v), n, pick) : n \in 0..(MaxCap + 1), pick \in Free(heap)}
    \cup {shrink_to_fit(Now(v), pick) : pick \in Free(heap)}
    \cup {clear(Now(v))}

\* C12: right after v is copy-constructed or copy-assigned from the other
\* object, v has the other's size and elements; two objects never have the
\* same array; whatever modifying member is called on one of two objects, the
\* array, the size, the capacity and the elements of the other are as before;
\* v = v changes nothing.
C12_CopyIndependence ==
  \A v \in Live :
    LET w == Other(v)
    IN  /\ (w \in Live /\ last.v = v /\ last.op \in {"Vector(other)", "operator="}) =>
              /\ size(vec[v]) = size(vec[w])
              /\ Elems(Now(v)) = Elems(Now(w))
        /\ (w \in Live /\ vec[v].values # NULL) => vec[v].values # vec[w].values
        /\ w \in Live =>
              \A r \in Modified(v) :
                /\ Contents(r.h, vec[w]) = Contents(heap, vec[w])
                /\ vec[w].values # NULL => r.h[vec[w].values] = heap[vec[w].values]
        /\ \A pick \in Free(heap) :
              Same(v, operator_assign(Now(v), vec[v], TRUE, pick))

\* a copy of three elements was constructed: the copy has an array of 3 slots,
\* the source one of min_capacity slots
C12_Witness ==
  /\ last.op = "Vector(other)"
  /\ Other(last.v) \in Live
  /\ capacity(vec[last.v]) = 3
  /\ capacity(vec[Other(last.v)]) = min_capacity
  /\ Elems(Now(last.v)) = <<1, 2, 1>>
  /\ Elems(Now(Other(last.v))) = <<1, 2, 1>>

\* C13: in every state, a traversal from begin() to end(), of Iterator or of
\* ConstIterator, ends after exactly size() increments and visits the elements
\* at the indices 0..size()-1 in that order; on an empty vector, with or
\* without an array, begin() = end() and nothing is visited.
C13_Iteration ==
  \A v \in Live :
    LET c == vec[v]
        t == Traverse(heap, begin(c), end(c), <<>>, MaxSteps)
        u == Traverse(heap, begin_const(c), end_const(c), <<>>, MaxSteps)
    IN  /\ t.ended /\ u.ended
        /\ Len(t.visited) = size(c) /\ Len(u.visited) = size(c)
        /\ t.visited = Elems(Now(v)) /\ u.visited = Elems(Now(v))
        /\ empty(c) => /\ begin(c) = end(c)
                        /\ begin_const(c) = end_const(c)
                        /\ t.visited = <<>> /\ u.visited = <<>>

\* a traversal of two elements in an array of more than two slots that
\* holds a value behind the last element
C13_Witness ==
  /\ last.op = "begin..end"
  /\ Elems(Now(last.v)) = <<2, 1>>
  /\ capacity(vec[last.v]) > 2
  /\ heap[vec[last.v].values][3] # Garbage

\* the iterators a program can obtain from an object: begin(), end() and
\* what operator++ yields in between
Its(c) == {Ptr(c.values, j) : j \in 0..size(c)}

\* the machine states left by the calls on v that grow the array: reserve(n)
\* with n above the capacity, push_back and insert on a full vector
Grown(v) ==
  {reserve(Now(v), n, pick) :
     n \in (capacity(vec[v]) + 1)..(MaxCap + 1), pick \in Free(heap)}
    \cup (IF size(vec[v]) = capacity(vec[v])
            THEN {push_back(Now(v), x, pick) : x \in Val, pick \in Free(heap)}
                   \cup {insert(Now(v), ItAt(v, k), x, pick) :
                           k \in 0..size(vec[v]), x \in Val, pick \in Free(heap)}
            ELSE {})

\* the machine states shrink_to_fit can leave when called on v
Shrunk(v) == {shrink_to_fit(Now(v), pick) : pick \in Free(heap)}

\* an iterator obtained before the call refers to a released array and not
\* to the array the object has after the call
Invalidated(it, r) ==
  it.base # NULL => r.h[it.base] = <<>> /\ it.base # r.c.values

\* C14, as claimed: reserve(n) with n above the capacity, shrink_to_fit, and
\* push_back and insert on a full vector leave the object with a newly
\* allocated array and the old one released: every iterator obtained before
\* the call refers to a released array and none to the object's array.
C14_InvalidationAsClaimed ==
  \A v \in Live :
    (/\ last.v = v
     /\ last.buf # NULL
     /\ \/ last.op = "shrink_to_fit"
        \/ last.op = "reserve" /\ capacity(vec[v]) > last.cap
        \/ last.op \in {"push_back", "insert"} /\ last.err = "none"
             /\ size(vec[v]) - 1 = last.cap)
      => /\ vec[v].values # last.buf
         /\ heap[last.buf] = <<>>

\* C14, amended: reserve(n) with n above the capacity, and push_back and
\* insert on a full vector, allocate the new array before they release the old
\* one: the new array is at an address that was free, the old one is released
\* and every iterator obtained before refers to it. shrink_to_fit releases the
\* old array before it allocates one of size() slots (none when size() = 0):
\* the new array is at a free address or at the address of the old one, and
\* then the iterators obtained before refer to slots of the object's array.
C14_Invalidation ==
  \A v \in Live :
    LET old == vec[v].values
    IN  /\ \A r \in Grown(v) :
              /\ r.c.values \in Free(heap)
              /\ \A it \in Its(vec[v]) : Invalidated(it, r)
        /\ \A r \in Shrunk(v) :
              /\ (r.c.values = NULL) <=> (size(vec[v]) = 0)
              /\ r.c.values # NULL => Len(r.h[r.c.values]) = size(vec[v])
              /\ r.c.values \in Free(heap) \cup {old, NULL}
              /\ \A it \in Its(vec[v]) : r.c.values # old => Invalidated(it, r)
        /\ (old # NULL /\ size(vec[v]) > 0) => \E r \in Shrunk(v) : r.c.values = old

\* reserve took a vector of two elements from an array of 2 slots to one of 4
C14_Witness ==
  /\ last.op = "reserve"
  /\ last.cap = 2
  /\ capacity(vec[last.v]) = 4
  /\ vec[last.v].values # last.buf
  /\ heap[last.buf] = <<>>
  /\ Elems(Now(last.v)) = <<1, 2>>

\* the iterator it, obtained before the call, refers after the call to a slot
\* of the object's array, the slot and the element it referred to before
StillValid(it, v, r) ==
  /\ it.base = r.c.values
  /\ it.off < size(r.c)
  /\ Len(r.h[it.base]) = Len(heap[it.base])
  /\ operator_deref(r.h, it) = operator_deref(heap, it)

\* C15: insert at offset k on a vector with a free slot, and erase at offset
\* k, keep the array and the value of every slot below k: an iterator obtained
\* before the call for an index j < k refers to the same slot of the object's
\* array and to the same element after the call.
C15_EarlierIteratorsValid ==
  \A v \in Live :
    /\ (last.v = v /\ last.err = "none" /\
          (last.op = "erase" \/ (last.op = "insert" /\ size(vec[v]) - 1 < last.cap)))
          => vec[v].values = last.buf /\ capacity(vec[v]) = last.cap
    /\ size(vec[v]) < capacity(vec[v]) =>
          \A k \in 0..size(vec[v]), val \in Val, pick \in Free(heap) :
            LET r == insert(Now(v), ItAt(v, k), val, pick)
            IN  /\ r.err = "none"
                /\ r.c.values = vec[v].values
                /\ \A j \in 0..(k - 1) : StillValid(ItAt(v, j), v, r)
    /\ \A k \in 0..(size(vec[v]) - 1) :
          LET r == erase(Now(v), ItAt(v, k))
          IN  /\ r.err = "none"
              /\ r.c.values = vec[v].values
              /\ \A j \in 0..(k - 1) : StillValid(ItAt(v, j), v, r)

\* an insert into a vector of two elements in the array of min_capacity slots
\* the vector had
C15_Witness ==
  /\ last.op = "insert"
  /\ last.err = "none"
  /\ last.cap = min_capacity
  /\ last.buf = vec[last.v].values
  /\ Elems(Now(last.v)) = <<1, 2, 1>>

\* C16: insert and erase called on one object with an iterator of the other
\* (its begin(), its end() or one in between), wherever the two arrays are
\* placed, throw IteratorOutOfBoundsError and leave the object as it was.
C16_ForeignIteratorRejected ==
  \A v \in Live :
    Other(v) \in Live =>
      \A d \in Distances(vec[v], vec[Other(v)]), j \in 0..size(vec[Other(v)]) :
        /\ \A val \in Val, pick \in Free(heap) :
             LET r == insert(Now(v), Foreign(vec[v], d, j), val, pick)
             IN  r.err = "IteratorOutOfBoundsError" /\ Same(v, r)
        /\ LET r == erase(Now(v), Foreign(vec[v], d, j))
           IN  r.err = "IteratorOutOfBoundsError" /\ Same(v, r)

\* the constructor left the heap as it was but for the array of the object
Allocated(r) ==
  /\ r.c.alive
  /\ r.err = "none"
  /\ r.c.values # NULL => r.c.values \in Free(heap)
  /\ \A a \in Addrs \ {r.c.values} : r.h[a] = heap[a]

Owners(a) == {v \in Live : vec[v].values = a}

\* C18: between any two calls, every address that holds an array is the
\* values pointer of exactly one live object, the values pointer of every
\* live object is null or the address of an array, no address was released
\* twice, and no array is left behind by the objects that lived only during a
\* call (the copy made by shrink_to_fit, the sources of copies and
\* assignments); the destructor releases the array of the object, once, and
\* nothing else.
C18_Ownership ==
  /\ \A a \in Addrs :
       /\ heap[a] # Corrupted
       /\ heap[a] # <<>> => Cardinality(Owners(a)) = 1
  /\ \A v \in Live : vec[v].values # NULL => heap[vec[v].values] # <<>>
  /\ \A v \in Vecs \ Live : vec[v].values = NULL
  /\ \A v \in Live :
       LET r == Destructor(Now(v))
       IN  /\ ~r.c.alive
           /\ \A a \in Addrs :
                r.h[a] = IF a = vec[v].values THEN <<>> ELSE heap[a]

\* the destructor released the array a shrink_to_fit had allocated: no
\* address holds an array
C18_Witness ==
  /\ last.op = "~Vector"
  /\ last.cap = 2
  /\ last.buf # NULL
  /\ \A a \in Addrs : heap[a] = <<>>

\* no write went outside an array or through a null or released pointer, and
\* no slot holds the result of a read of anything but an element
Sound(h) ==
  \A a \in Addrs :
    /\ h[a] # Corrupted
    /\ \A i \in 1..Len(h[a]) : h[a][i] # Wild

\* the object has an array exactly when its capacity is not 0, the array has
\* capacity() slots, and the slots below size() hold values that were stored
WellFormed(h, c) ==
  /\ (c.values = NULL) <=> (capacity(c) = 0)
  /\ Len(Array(h, c.values)) = capacity(c)
  /\ \A i \in 0..(size(c) - 1) : Load(Array(h, c.values), i, size(c)) \in Val

\* the machine states the copy constructor and operator= leave when called
\* with v as the source and as the destination
Copied(v) ==
  {VectorCopy(heap, vec[v], pick) : pick \in Free(heap)}
    \cup {AssignTemporary(Now(v), src, pick) : src \in Sources, pick \in Free(heap)}

\* C19: in every state the array of an object has exactly capacity() slots
\* (and there is none exactly when capacity() = 0), and every member function,
\* called in any state with any argument, writes only slots of an allocated
\* array of the object it writes to and reads only slots below size(): the
\* constructors, reserve, push_back, insert, erase, pop_back, the element
\* write, clear, shrink_to_fit, the copy constructor and operator=.
C19_AccessesInBounds ==
  /\ Sound(heap)
  /\ \A v \in Live :
       /\ WellFormed(heap, vec[v])
       /\ \A r \in Modified(v) \cup Copied(v) :
            Sound(r.h) /\ WellFormed(r.h, r.c)
  /\ \A pick \in Free(heap) :
       /\ \A n \in Ns :
            LET r == VectorN(heap, n, pick) IN Sound(r.h) /\ WellFormed(r.h, r.c)
       /\ \A init_list \in Lists :
            LET r == VectorList(heap, init_list, pick) IN Sound(r.h) /\ WellFormed(r.h, r.c)

\* the capacity repeated push_back leaves when n elements are appended to an
\* emptied vector of capacity cap: each push_back that finds the vector full
\* adds min_capacity slots
Appended(cap, n) ==
  IF n <= cap THEN cap ELSE cap + min_capacity * ((n - cap + min_capacity - 1) \div min_capacity)

\* C20 as claimed: when an object that has an array was assigned another
\* object, the array it had before the assignment is released and its
\* pointer refers to another one.
C20_ReleasesPriorBuffer ==
  (last.op = "operator=" /\ last.buf # NULL)
    => /\ vec[last.v].values # last.buf
       /\ heap[last.buf] = <<>>

\* C20: when an object of capacity cap was assigned another object of n
\* elements: if n <= cap the object keeps its array and its capacity, so the
\* iterators obtained before the assignment still refer to its array; if
\* n > cap the push_back that found the vector full moved it to a new array
\* and released the one it had, and the capacity is cap plus as many times
\* min_capacity as needed to hold n elements. In both cases the capacity is
\* a function of cap and n alone: the capacity of the source plays no part.
C20_Assignment ==
  last.op = "operator=" =>
    LET c == vec[last.v]
        n == size(c)
    IN  /\ capacity(c) = Appended(last.cap, n)
        /\ n <= last.cap =>
             /\ c.values = last.buf
             /\ last.buf # NULL => Len(heap[last.buf]) = last.cap
        /\ n > last.cap =>
             /\ c.values # last.buf
             /\ (last.buf # NULL /\ n <= last.cap + min_capacity) => heap[last.buf] = <<>>

\* a vector of capacity 5 was assigned a vector of two elements and of
\* capacity 2: it keeps its array and its capacity
C20_Witness ==
  /\ last.op = "operator="
  /\ last.cap = min_capacity
  /\ last.buf # NULL
  /\ vec[last.v].values = last.buf
  /\ capacity(vec[last.v]) = min_capacity
  /\ vec[Other(last.v)].alive
  /\ capacity(vec[Other(last.v)]) = 2
  /\ Elems(Now(last.v)) = <<2, 1>>
====
